---- MODULE Spec2Model ----
(***************************************************************************)
(* Model of src/frontend/chat.js: the chat widget's transcript, the        *)
(* activations of the async function sendMessage (one per accepted send,   *)
(* suspended at its two awaits), the model selector, the copy buttons      *)
(* with their clipboard writes and timers, and the click sound.            *)
(*                                                                         *)
(* JavaScript runs each handler and each continuation of an await to       *)
(* completion on one event loop, so every action below is one such run.    *)
(***************************************************************************)
EXTENDS Integers, Sequences, FiniteSets, TLC

\* ------------------------------------------------------------------ bounds
MaxTurns == 2       \* accepted sends (activations of sendMessage) per behaviour
MaxChanges == 1     \* "change" events of the model selector per behaviour
MaxClicks == 2      \* clicks on copy buttons per behaviour
MaxActs == 3        \* accepted sends, selector changes and copy clicks together

\* --------------------------------------------------------- program constants
CopiedMs == 1000    \* setTimeout delay after a successful clipboard write
FailedMs == 1200    \* setTimeout delay after a failed clipboard write

\* ------------------------------------------------------------------ strings
\* A string is a sequence of one-character strings.
IsSpace(c) == c \in {" ", "\n"}

RECURSIVE TrimStart(_)
TrimStart(s) == IF s # <<>> /\ IsSpace(Head(s)) THEN TrimStart(Tail(s)) ELSE s

RECURSIVE TrimEnd(_)
TrimEnd(s) ==
    IF s # <<>> /\ IsSpace(s[Len(s)]) THEN TrimEnd(SubSeq(s, 1, Len(s) - 1)) ELSE s

\* faulty variants: only leading whitespace is stripped; nothing is stripped
TrimLeadingOnly(s) == TrimStart(s)
NoTrim(s) == s

\* String.prototype.trim, as sendMessage applies it to inputBox.value
Trim(s) == TrimEnd(TrimStart(s))

\* what the user can have in the input field
Inputs == { <<>>, <<" ">>, <<" ", "a", " ">> }

\* the options of the model selector
Models == {"llama3", "mistral"}

\* ------------------------------------------------------------ JS values
Undefined == [ty |-> "undefined"]
Str(s) == [ty |-> "string", s |-> s]
IsString(v) == v.ty = "string"
\* faulty variant: a test for presence instead of truthiness
TruthyIfPresent(v) == IsString(v)

\* ToBoolean on the values that occur: undefined and "" are falsy
Truthy(v) == IsString(v) /\ v.s # <<>>

\* markdown sources the backend can reply with: a paragraph, or a fenced
\* code block (with a language) holding the characters `code`
MdText == <<[md |-> "para", s |-> <<"o", "k">>]>>
MdCode == <<[md |-> "fence", lang |-> "py", s |-> <<"x", "<", "1">>]>>
ErrorText == <<[md |-> "para", s |-> <<"E", "R", "R">>]>>   \* the fixed text "Could not connect to backend."
WelcomeText == <<[md |-> "para", s |-> <<"h", "i">>]>>      \* the opening welcome

NoteX == <<"X">>    \* a system_note text sent by the backend

\* bodies that response.json() can resolve with
JsonNull == [ty |-> "null"]
Obj(reply, note) == [ty |-> "object", reply |-> reply, system_note |-> note]
Bodies ==
    { Obj(Str(MdText), Undefined),      \* {reply}
      Obj(Str(MdCode), Undefined),      \* {reply} with a code block
      Obj(Str(MdText), Str(NoteX)),     \* {reply, system_note: "X"}
      Obj(Str(MdText), Str(<<>>)),      \* {reply, system_note: ""}
      Obj(Undefined, Undefined),        \* {}    (valid JSON, no reply)
      JsonNull }                        \* null  (valid JSON)

\* --------------------------------------------------------------- variables
VARIABLES
    chat,           \* children of #chat-container, in document order
    nodeCount,      \* nodes created so far; a node's id is its creation number
    scrollTop,      \* chatContainer.scrollTop, in entries
    buttons,        \* the .copy-btn elements of the document, in document order
    inputBox,       \* inputBox.value
    modelSelect,    \* modelSelect.value
    lastModelUsed,  \* the module-level variable
    turns,          \* activations of sendMessage, in call order
    fetchLog,       \* the fetch calls issued, in order
    clipLog,        \* the navigator.clipboard.writeText calls issued, in order
    writes,         \* indices of clipLog whose promise is not settled yet
    timers,         \* pending setTimeout callbacks, in the order they were set
    sound,          \* calls of playClick made so far
    changes         \* "change" events dispatched so far

vars == << chat, nodeCount, scrollTop, buttons, inputBox, modelSelect,
           lastModelUsed, turns, fetchLog, clipLog, writes, timers, sound,
           changes >>

\* ------------------------------------------------------------- the document
\* The DOM the rendering functions work on, as one value.
Dom == [chat |-> chat, n |-> nodeCount, buttons |-> buttons]

Node(id, cls, inner) == [id |-> id, className |-> cls, inner |-> inner]

IsTyping(e) == e.inner.t = "typing"
IsUser(e) == e.className = "msg msg-user"
IsSystem(e) == e.className = "msg msg-system"
IsAI(e) == e.className = "msg msg-ai" /\ ~IsTyping(e)

\* chatContainer.scrollTop = chatContainer.scrollHeight
scrollToBottom(d) == Len(d.chat)

addUserMessage(d, text) ==
    [d EXCEPT !.chat = Append(@, Node(d.n + 1, "msg msg-user",
                                      [t |-> "text", text |-> text])),
              !.n = @ + 1]

addSystemNote(d, text, withLoader) ==
    [d EXCEPT !.chat = Append(@, Node(d.n + 1, "msg msg-system",
                                      [t |-> "note", i |-> text, loader |-> withLoader])),
              !.n = @ + 1]

addTypingBubble(d) ==
    [d EXCEPT !.chat = Append(@, Node(d.n + 1, "msg msg-ai", [t |-> "typing"])),
              !.n = @ + 1]

\* faulty variant: removes the first typing indicator of the transcript
\* instead of the node held by the caller
RemoveFirstTyping(d, id) ==
    LET typing == { k \in 1..Len(d.chat) : d.chat[k].inner.t = "typing" }
        first == CHOOSE k \in typing : \A j \in typing : k <= j
    IN  IF typing = {} THEN d
        ELSE [d EXCEPT !.chat = SubSeq(@, 1, first - 1) \o SubSeq(@, first + 1, Len(@))]

\* faulty variant: the entry before the node is detached with it
RemoveNodeAndPrevious(d, id) ==
    LET at == { k \in 1..Len(d.chat) : d.chat[k].id = id }
        k == CHOOSE k \in at : TRUE
    IN  IF at = {} THEN d
        ELSE [d EXCEPT !.chat = SubSeq(@, 1, k - 2) \o SubSeq(@, k + 1, Len(@))]

\* node.remove(): detaches the node when it is attached, else does nothing
RemoveNode(d, id) ==
    [d EXCEPT !.chat = SelectSeq(@, LAMBDA e : e.id # id)]

\* HTML escaping of code text by the markdown converter, and its decoding
\* when the HTML is parsed into the element
RECURSIVE Escape(_)
Escape(s) ==
    IF s = <<>> THEN <<>>
    ELSE (CASE Head(s) = "<" -> <<"&", "l", "t", ";">>
            [] Head(s) = "&" -> <<"&", "a", "m", "p", ";">>
            [] OTHER -> <<Head(s)>>) \o Escape(Tail(s))

RECURSIVE Unescape(_)
Unescape(s) ==
    IF s = <<>> THEN <<>>
    ELSE IF Len(s) >= 4 /\ SubSeq(s, 1, 4) = <<"&", "l", "t", ";">>
         THEN <<"<">> \o Unescape(SubSeq(s, 5, Len(s)))
    ELSE IF Len(s) >= 5 /\ SubSeq(s, 1, 5) = <<"&", "a", "m", "p", ";">>
         THEN <<"&">> \o Unescape(SubSeq(s, 6, Len(s)))
    ELSE <<Head(s)>> \o Unescape(Tail(s))

\* marked.parse on a string: one HTML block per markdown block; a fence
\* becomes <pre><code class="language-L">escaped code + newline</code></pre>
MarkedBlock(b) ==
    IF b.md = "fence"
    THEN [tag |-> "pre>code", lang |-> b.lang, html |-> Escape(b.s) \o <<"\n">>]
    ELSE [tag |-> "p", html |-> b.s]

MarkedParse(md) == [k \in 1..Len(md) |-> MarkedBlock(md[k])]

\* marked.parse throws on input that is no string
MarkedThrows(v) == ~IsString(v)

\* the replace() of addAIMessage: every <pre><code ...> block is wrapped with
\* a copy button; the language class is dropped
WrapCode(h) ==
    IF h.tag = "pre>code"
    THEN [tag |-> "div.code-wrapper", button |-> "copy", html |-> h.html]
    ELSE h

WrapCodeBlocks(html) == [k \in 1..Len(html) |-> WrapCode(html[k])]

\* number of copy buttons among the first k blocks
RECURSIVE ButtonsIn(_, _)
ButtonsIn(html, k) ==
    IF k = 0 THEN 0
    ELSE ButtonsIn(html, k - 1) + (IF html[k].tag = "div.code-wrapper" THEN 1 ELSE 0)

\* div.innerHTML = html: the elements of the new entry; each copy button is a
\* new element of the document, its sibling code element holds the decoded text
ParseHtml(html, firstButton) ==
    [k \in 1..Len(html) |->
        IF html[k].tag = "div.code-wrapper"
        THEN [tag |-> "div.code-wrapper",
              button |-> firstButton + ButtonsIn(html, k),
              code |-> Unescape(html[k].html)]
        ELSE [tag |-> "p", text |-> html[k].html]]

NewButton == [label |-> "copy", bound |-> FALSE, handlers |-> 0]

\* faulty variant: the marker is not consulted, every button of the document
\* gets the click handler again
activateCopyButtonsRebinding(d) ==
    [d EXCEPT !.buttons =
        [b \in 1..Len(@) |-> [@[b] EXCEPT !.bound = TRUE, !.handlers = @ + 1]]]

\* activateCopyButtons: every button not marked bound gets the marker and
\* the click handler
activateCopyButtons(d) ==
    [d EXCEPT !.buttons =
        [b \in 1..Len(@) |->
            IF @[b].bound THEN @[b]
            ELSE [@[b] EXCEPT !.bound = TRUE, !.handlers = @ + 1]]]

\* addAIMessage on a string (see MarkedThrows for the other inputs)
addAIMessage(d, text) ==
    LET html == WrapCodeBlocks(MarkedParse(text.s))
        els == ParseHtml(html, Len(d.buttons))
        nb == ButtonsIn(html, Len(html))
        d1 == [d EXCEPT !.chat = Append(@, Node(d.n + 1, "msg msg-ai",
                                                 [t |-> "html", els |-> els])),
                        !.n = @ + 1,
                        !.buttons = @ \o [k \in 1..nb |-> NewButton]]
    IN  activateCopyButtons(d1)

\* ------------------------------------------------------------------- sound
\* what can happen to the sound: it plays, new Audio(...) throws, or the
\* promise of audio.play() rejects
AudioOutcomes == {"plays", "ctor throws", "play rejects"}

\* faulty variant: a failure of the sound reaches the caller
playClickRaises(n, outcome) == [calls |-> n + 1, raised |-> outcome # "plays"]

\* playClick with `n` calls made before: the try/catch and the .catch(() => {})
\* swallow both failures, so the call returns normally whatever the outcome
playClick(n, outcome) == [calls |-> n + 1, raised |-> FALSE]

\* -------------------------------------------------------------------- init
\* the value of the selector when the script runs: its first option
InitialModel == "llama3"

Init ==
    LET d == addAIMessage([chat |-> <<>>, n |-> 0, buttons |-> <<>>], Str(WelcomeText))
    IN  /\ chat = d.chat
        /\ nodeCount = d.n
        /\ buttons = d.buttons
        /\ scrollTop = scrollToBottom(d)
        /\ inputBox = <<>>
        /\ modelSelect = InitialModel
        /\ lastModelUsed = modelSelect
        /\ turns = <<>>
        /\ fetchLog = <<>>
        /\ clipLog = <<>>
        /\ writes = {}
        /\ timers = <<>>
        /\ sound = 0
        /\ changes = 0

SetDom(d) ==
    /\ chat' = d.chat
    /\ nodeCount' = d.n
    /\ buttons' = d.buttons
    /\ scrollTop' = scrollToBottom(d)

\* ---------------------------------------------------------------- the user
\* sends accepted, selector changes and copy clicks made so far
UserActs == Len(turns) + changes + Len(clipLog)

\* the user edits the input field
TypeInput(s) ==
    /\ s # inputBox
    /\ inputBox' = s
    /\ UNCHANGED << chat, nodeCount, scrollTop, buttons, modelSelect, lastModelUsed,
                    turns, fetchLog, clipLog, writes, timers, sound, changes >>

\* ------------------------------------------------------------- sendMessage
\* the activation record of a call of sendMessage suspended at its first await
Activation(text, model, typingBubble) ==
    [pc |-> "await fetch", text |-> text, model |-> model,
     typingBubble |-> typingBubble,
     removes |-> 0,         \* calls of typingBubble.remove() made so far
     path |-> "try"]        \* "catch" once the catch block has run

\* faulty variant: prev_model is the model of this turn
FetchCallPrevIsModel(me, text, model) ==
    [turn |-> me,
     body |-> [message |-> text, model |-> model, prev_model |-> model]]

\* the fetch call of activation `me`; JSON.stringify keeps the three fields
FetchCall(me, text, model) ==
    [turn |-> me,
     body |-> [message |-> text, model |-> model, prev_model |-> lastModelUsed]]

\* the call of sendMessage, up to its first await
sendMessage ==
    LET text == Trim(inputBox) IN
    IF text = <<>>
    THEN UNCHANGED vars
    ELSE /\ Len(turns) < MaxTurns
         /\ UserActs < MaxActs
         /\ LET d1 == addUserMessage(Dom, text)
                d2 == addTypingBubble(d1)
                model == modelSelect
            IN  /\ SetDom(d2)
                /\ inputBox' = <<>>
                /\ turns' = Append(turns, Activation(text, model, d2.n))
                /\ fetchLog' = Append(fetchLog, FetchCall(Len(turns) + 1, text, model))
         /\ UNCHANGED << modelSelect, lastModelUsed, clipLog, writes, timers,
                         sound, changes >>

\* sendBtn.onclick
SendClick == sendMessage

\* the keydown listener of the input field
Keydown(key, shiftKey) ==
    IF key = "Enter" /\ ~shiftKey
    THEN sendMessage
    ELSE UNCHANGED vars

\* faulty variant: the catch block keeps the placeholder and awaits the call
\* again instead of reporting the failure
CatchRetries(t, d, last, acts) ==
    /\ SetDom(d)
    /\ lastModelUsed' = last
    /\ turns' = [acts EXCEPT ![t].pc = "await fetch"]

\* the catch block of sendMessage, entered with the document at d, lastModelUsed
\* at `last` and the activations at `acts`
Catch(t, d, last, acts) ==
    LET d1 == RemoveNode(d, turns[t].typingBubble)
        d2 == addAIMessage(d1, Str(ErrorText))
    IN  /\ SetDom(d2)
        /\ lastModelUsed' = last
        /\ turns' = [acts EXCEPT ![t].pc = "returned",
                                 ![t].removes = @ + 1,
                                 ![t].path = "catch"]

\* faulty variant: the entry is appended before the markdown is converted, so
\* a failing conversion leaves an empty assistant entry behind
RenderAppendsFirst(t, d, acts, data) ==
    IF MarkedThrows(data.reply)
    THEN Catch(t, addAIMessage(d, Str(<<>>)), turns[t].model, acts)
    ELSE /\ SetDom(addAIMessage(d, data.reply))
         /\ lastModelUsed' = turns[t].model
         /\ turns' = [acts EXCEPT ![t].pc = "returned"]

\* faulty variant: the selector is read again when the response is handled
RenderReadsSelector(t, d, acts, data) ==
    IF MarkedThrows(data.reply)
    THEN Catch(t, d, modelSelect, acts)
    ELSE /\ SetDom(addAIMessage(d, data.reply))
         /\ lastModelUsed' = modelSelect
         /\ turns' = [acts EXCEPT ![t].pc = "returned"]

\* lastModelUsed = model; addAIMessage(data.reply); and the catch block when
\* the markdown converter throws
Render(t, d, acts, data) ==
    IF MarkedThrows(data.reply)
    THEN Catch(t, d, turns[t].model, acts)
    ELSE /\ SetDom(addAIMessage(d, data.reply))
         /\ lastModelUsed' = turns[t].model
         /\ turns' = [acts EXCEPT ![t].pc = "returned"]

\* faulty variant: the placeholder is removed as soon as the Response arrives,
\* before its body is read
FetchResolveRemoves(t) ==
    /\ t \in 1..Len(turns)
    /\ turns[t].pc = "await fetch"
    /\ turns' = [turns EXCEPT ![t].pc = "await json"]
    /\ SetDom(RemoveNode(Dom, turns[t].typingBubble))
    /\ UNCHANGED << inputBox, modelSelect, lastModelUsed, fetchLog, clipLog,
                    writes, timers, sound, changes >>

\* await fetch(...) resolves with a Response
FetchResolve(t) ==
    /\ t \in 1..Len(turns)
    /\ turns[t].pc = "await fetch"
    /\ turns' = [turns EXCEPT ![t].pc = "await json"]
    /\ UNCHANGED << chat, nodeCount, scrollTop, buttons, inputBox, modelSelect,
                    lastModelUsed, fetchLog, clipLog, writes, timers, sound, changes >>

\* await fetch(...) rejects (network error)
FetchReject(t) ==
    /\ t \in 1..Len(turns)
    /\ turns[t].pc = "await fetch"
    /\ Catch(t, Dom, lastModelUsed, turns)
    /\ UNCHANGED << inputBox, modelSelect, fetchLog, clipLog, writes, timers,
                    sound, changes >>

\* await response.json() rejects (the body is no JSON)
JsonReject(t) ==
    /\ t \in 1..Len(turns)
    /\ turns[t].pc = "await json"
    /\ Catch(t, Dom, lastModelUsed, turns)
    /\ UNCHANGED << inputBox, modelSelect, fetchLog, clipLog, writes, timers,
                    sound, changes >>

\* faulty variant: the handler is suspended once more after the placeholder
\* is removed, and the rest of it runs in a later step
JsonResolveSuspends(t, data) ==
    /\ t \in 1..Len(turns)
    /\ turns[t].pc = "await json"
    /\ IF \E i \in 1..Len(chat) : chat[i].id = turns[t].typingBubble
       THEN /\ SetDom(RemoveNode(Dom, turns[t].typingBubble))
            /\ turns' = [turns EXCEPT ![t].removes = @ + 1]
            /\ lastModelUsed' = lastModelUsed
       ELSE IF data.ty = "null"
       THEN Catch(t, Dom, lastModelUsed, turns)
       ELSE Render(t, Dom, turns, data)
    /\ UNCHANGED << inputBox, modelSelect, fetchLog, clipLog, writes, timers,
                    sound, changes >>

\* await response.json() resolves with `data`: the rest of the try block,
\* and the catch block when a statement of it throws
JsonResolve(t, data) ==
    /\ t \in 1..Len(turns)
    /\ turns[t].pc = "await json"
    /\ LET d1 == RemoveNode(Dom, turns[t].typingBubble)
           removed == [turns EXCEPT ![t].removes = @ + 1]
       IN  IF data.ty = "null"
           THEN \* reading data.system_note throws a TypeError
                /\ Catch(t, d1, lastModelUsed, removed)
                /\ sound' = sound
           ELSE IF ~Truthy(data.system_note)
           THEN /\ Render(t, d1, removed, data)
                /\ sound' = sound
           ELSE \E audio \in AudioOutcomes :
                  LET click == playClick(sound, audio)
                  IN  /\ sound' = click.calls
                      /\ IF click.raised
                         THEN Catch(t, d1, lastModelUsed, removed)
                         ELSE Render(t, addSystemNote(d1, data.system_note.s, TRUE),
                                     removed, data)
    /\ UNCHANGED << inputBox, modelSelect, fetchLog, clipLog, writes, timers, changes >>

\* ------------------------------------------------------------ model change
\* the text of the note the change listener shows
SwitchNote(selected) == <<"Switching to <b>", selected, "</b> (robot)">>

\* faulty variant: the change listener also records the model as used
ModelChangeSetsLast(m, audio) ==
    /\ changes < MaxChanges
    /\ UserActs < MaxActs
    /\ m \in Models \ {modelSelect}
    /\ modelSelect' = m
    /\ changes' = changes + 1
    /\ sound' = sound + 1
    /\ lastModelUsed' = m
    /\ SetDom(addSystemNote(Dom, SwitchNote(m), TRUE))
    /\ UNCHANGED << inputBox, turns, fetchLog, clipLog, writes, timers >>

\* the user picks another option: the browser sets modelSelect.value and
\* dispatches "change"
ModelChange(m, audio) ==
    /\ changes < MaxChanges
    /\ UserActs < MaxActs
    /\ m \in Models \ {modelSelect}
    /\ modelSelect' = m
    /\ changes' = changes + 1
    /\ LET click == playClick(sound, audio)
       IN  /\ sound' = click.calls
           /\ IF click.raised
              THEN UNCHANGED << chat, nodeCount, scrollTop, buttons >>
              ELSE SetDom(addSystemNote(Dom, SwitchNote(m), TRUE))
    /\ UNCHANGED << inputBox, lastModelUsed, turns, fetchLog, clipLog, writes, timers >>

\* ------------------------------------------------------------ copy buttons
\* btn.parentElement.querySelector("code").innerText of button b
CodeText(b) ==
    LET e == CHOOSE e \in 1..Len(chat) :
                 /\ chat[e].inner.t = "html"
                 /\ \E k \in 1..Len(chat[e].inner.els) :
                       /\ chat[e].inner.els[k].tag = "div.code-wrapper"
                       /\ chat[e].inner.els[k].button = b
        els == chat[e].inner.els
        k == CHOOSE k \in 1..Len(els) :
                 els[k].tag = "div.code-wrapper" /\ els[k].button = b
    IN  els[k].code

\* the click handler of copy button b, up to the writeText call
CopyClick(b) ==
    /\ b \in 1..Len(buttons)
    /\ buttons[b].handlers > 0
    /\ Len(clipLog) < MaxClicks
    /\ UserActs < MaxActs
    /\ clipLog' = Append(clipLog, [button |-> b, text |-> CodeText(b)])
    /\ writes' = writes \cup {Len(clipLog) + 1}
    /\ UNCHANGED << chat, nodeCount, scrollTop, buttons, inputBox, modelSelect,
                    lastModelUsed, turns, fetchLog, timers, sound, changes >>

\* the then-callback: the write of click w succeeded
WriteResolve(w) ==
    /\ w \in writes
    /\ writes' = writes \ {w}
    /\ buttons' = [buttons EXCEPT ![clipLog[w].button].label = "copied!"]
    /\ timers' = Append(timers, [button |-> clipLog[w].button, ms |-> CopiedMs, click |-> w])
    /\ UNCHANGED << chat, nodeCount, scrollTop, inputBox, modelSelect, lastModelUsed,
                    turns, fetchLog, clipLog, sound, changes >>

\* the catch-callback: the write of click w failed
WriteReject(w) ==
    /\ w \in writes
    /\ writes' = writes \ {w}
    /\ buttons' = [buttons EXCEPT ![clipLog[w].button].label = "failed"]
    /\ timers' = Append(timers, [button |-> clipLog[w].button, ms |-> FailedMs, click |-> w])
    /\ UNCHANGED << chat, nodeCount, scrollTop, inputBox, modelSelect, lastModelUsed,
                    turns, fetchLog, clipLog, sound, changes >>

\* a timer set earlier with a delay no longer than timer k's is due before it
MayFire(k) == \A j \in 1..(k - 1) : timers[j].ms > timers[k].ms

\* the setTimeout callback of pending timer k runs
TimerFire(k) ==
    /\ k \in 1..Len(timers)
    /\ MayFire(k)
    /\ buttons' = [buttons EXCEPT ![timers[k].button].label = "copy"]
    /\ timers' = SubSeq(timers, 1, k - 1) \o SubSeq(timers, k + 1, Len(timers))
    /\ UNCHANGED << chat, nodeCount, scrollTop, inputBox, modelSelect, lastModelUsed,
                    turns, fetchLog, clipLog, writes, sound, changes >>

Next ==
    \/ \E s \in Inputs : TypeInput(s)
    \/ SendClick
    \/ \E key \in {"Enter", "a"}, shiftKey \in BOOLEAN : Keydown(key, shiftKey)
    \/ \E t \in 1..MaxTurns : FetchResolve(t)
    \/ \E t \in 1..MaxTurns : FetchReject(t)
    \/ \E t \in 1..MaxTurns : JsonReject(t)
    \/ \E t \in 1..MaxTurns, data \in Bodies : JsonResolve(t, data)
    \/ \E m \in Models, audio \in AudioOutcomes : ModelChange(m, audio)
    \/ \E b \in 1..MaxTurns : CopyClick(b)
    \/ \E w \in 1..MaxClicks : WriteResolve(w)
    \/ \E w \in 1..MaxClicks : WriteReject(w)
    \/ \E k \in 1..MaxClicks : TimerFire(k)

Spec == Init /\ [][Next]_vars

\* every issued backend call eventually resolves or rejects, and so does the
\* reading of a response's body
Fairness ==
    \A t \in 1..MaxTurns :
        /\ WF_vars(FetchResolve(t) \/ FetchReject(t))
        /\ WF_vars(JsonReject(t) \/ \E data \in Bodies : JsonResolve(t, data))

FairSpec == Spec /\ Fairness
\* ======================================================================
\* Properties
\* ======================================================================
TypingIds(c) == { c[i].id : i \in { j \in 1..Len(c) : IsTyping(c[j]) } }
UserEntries(c) == SelectSeq(c, IsUser)
SystemEntries(c) == SelectSeq(c, IsSystem)
AIEntries(c) == SelectSeq(c, IsAI)
Settled(c) == SelectSeq(c, LAMBDA e : ~IsTyping(e))
Last(c) == c[Len(c)]

\* the text between the first and the last non-space character of s
TrimmedOf(s) ==
    LET core == { k \in 1..Len(s) : ~IsSpace(s[k]) }
        lo == CHOOSE k \in core : \A j \in core : k <= j
        hi == CHOOSE k \in core : \A j \in core : k >= j
    IN  IF core = {} THEN <<>> ELSE SubSeq(s, lo, hi)

Pending(t) == t \in 1..Len(turns) /\ turns[t].pc # "returned"
AwaitingFetch == { t \in 1..Len(turns) : turns[t].pc = "await fetch" }
\* the step handles the completed backend call of turn t
Completes(t) == Pending(t) /\ turns'[t].pc = "returned"
Fails(t) == Completes(t) /\ turns'[t].path = "catch"
Succeeds(t) == Completes(t) /\ turns'[t].path = "try"
Sends == Len(turns') = Len(turns) + 1

IsErrorEntry(e) == IsAI(e) /\ e.inner.els = <<[tag |-> "p", text |-> ErrorText[1].s]>>
IsNoteOf(e, text) == IsSystem(e) /\ e.inner.i = text /\ e.inner.loader

\* C1: at most one backend call issued by sendMessage is unresolved at any time.
C1_AtMostOneInFlight == Cardinality(AwaitingFetch) <= 1

\* C2: a turn that ends in failure appends exactly one assistant entry with the
\* fixed error text, has its typing placeholder removed, and leaves
\* lastModelUsed as it was.
C2_FailureKeepsLastModel ==
    [][\A t \in 1..Len(turns) :
          Fails(t) =>
              /\ turns[t].typingBubble \notin TypingIds(chat')
              /\ Len(AIEntries(chat')) = Len(AIEntries(chat)) + 1
              /\ IsErrorEntry(Last(chat'))
              /\ lastModelUsed' = lastModelUsed]_vars

\* C3: an accepted send appends exactly one user entry holding the trimmed
\* text and clears the input in the step of the send, while the call is still
\* unresolved; no other step adds a user entry.
C3_SendAppendsOneUserEntry ==
    [][IF Sends
       THEN /\ Len(UserEntries(chat')) = Len(UserEntries(chat)) + 1
            /\ Len(chat') = Len(chat) + 2
            /\ SubSeq(chat', 1, Len(chat)) = chat
            /\ IsUser(chat'[Len(chat) + 1])
            /\ chat'[Len(chat) + 1].inner.text = TrimmedOf(inputBox)
            /\ TrimmedOf(inputBox) # <<>>
            /\ inputBox' = <<>>
            /\ turns'[Len(turns')].pc = "await fetch"
       ELSE UserEntries(chat') = UserEntries(chat)]_vars

C3_Witness ==
    /\ Len(turns) = 2
    /\ turns[2].pc = "await fetch"
    /\ inputBox = <<>>
    /\ Len(UserEntries(chat)) = 2
    /\ Last(UserEntries(chat)).inner.text = <<"a">>

\* s is empty or holds whitespace only
IsBlank(s) == \A i \in 1..Len(s) : IsSpace(s[i])

\* C4: a send on an empty or whitespace-only input changes nothing: no entry,
\* no placeholder, no backend call, lastModelUsed and the activations as before.
C4_BlankSendIsNoOp ==
    IsBlank(inputBox) =>
        /\ ~ENABLED <<SendClick>>_vars
        /\ ~ENABLED <<Keydown("Enter", FALSE)>>_vars

C4_Witness ==
    /\ inputBox = <<" ">>
    /\ Len(turns) = 1
    /\ Pending(1)
    /\ UserActs < MaxActs

\* the step is the handling of body `data` by turn t, ending in the try block
SucceedsWith(t, data) ==
    /\ Succeeds(t)
    /\ JsonResolve(t, data)

\* the step appended `n` entries to the transcript apart from placeholders
Appended(n) ==
    /\ Len(Settled(chat')) = Len(Settled(chat)) + n
    /\ SubSeq(Settled(chat'), 1, Len(Settled(chat))) = Settled(chat)
    /\ SubSeq(chat', Len(chat') - n + 1, Len(chat'))
          = SubSeq(Settled(chat'), Len(Settled(chat)) + 1, Len(Settled(chat')))

OneReply == Appended(1) /\ IsAI(Last(chat')) /\ sound' = sound

NoteThenReply(text) ==
    /\ Appended(2)
    /\ IsNoteOf(chat'[Len(chat') - 1], text)
    /\ IsAI(Last(chat'))
    /\ sound' = sound + 1

\* C5 (as stated): a successful response without system_note appends one
\* assistant entry, no note and plays no sound; with system_note of any string
\* value X it appends one note holding X, with the loader, right before the
\* assistant entry, and makes one sound attempt.
C5_NoteForAnyString ==
    [][\A t \in 1..Len(turns), data \in Bodies :
          SucceedsWith(t, data) =>
              IF data.system_note.ty = "string"
              THEN NoteThenReply(data.system_note.s)
              ELSE OneReply]_vars

\* C5 (amended): the note and the sound come with every non-empty system_note;
\* an absent or empty one gives the assistant entry alone and no sound.
C5_NoteForNonEmptyString ==
    [][\A t \in 1..Len(turns), data \in Bodies :
          SucceedsWith(t, data) =>
              IF data.system_note.ty = "string" /\ data.system_note.s # <<>>
              THEN NoteThenReply(data.system_note.s)
              ELSE OneReply]_vars

C5_Witness ==
    /\ Len(turns) = 2
    /\ turns[1].pc = "returned" /\ turns[1].path = "try"
    /\ turns[2].pc = "returned" /\ turns[2].path = "try"
    /\ Len(chat) = 6
    /\ IsUser(chat[2]) /\ IsUser(chat[3])
    /\ IsAI(chat[4])
    /\ IsNoteOf(chat[5], NoteX) /\ IsAI(chat[6])
    /\ sound = 1

\* C6: a change of the model selector to B appends one system note that
\* mentions B and makes one sound attempt, whatever is pending, and changes
\* nothing else: no call, no placeholder added or removed, the activations and
\* lastModelUsed as before.
C6_ModelChangeFrame ==
    [][changes' # changes =>
          /\ chat' = Append(chat, Last(chat'))
          /\ IsSystem(Last(chat'))
          /\ \E i \in 1..Len(Last(chat').inner.i) : Last(chat').inner.i[i] = modelSelect'
          /\ modelSelect' # modelSelect
          /\ sound' = sound + 1
          /\ UNCHANGED << turns, fetchLog, lastModelUsed, inputBox, buttons,
                          clipLog, writes, timers >>]_vars

C6_Witness ==
    /\ changes = 1
    /\ Len(turns) = 2 /\ Pending(1) /\ Pending(2)
    /\ IsSystem(Last(chat))
    /\ Cardinality(TypingIds(chat)) = 2
    /\ lastModelUsed # modelSelect

\* C7: every send creates a placeholder of its own, and handling a turn's
\* response removes that turn's placeholder and no other.
C7_OwnPlaceholderOnly ==
    /\ [](\A t, u \in 1..Len(turns) :
            /\ (t # u => turns[t].typingBubble # turns[u].typingBubble)
            /\ (Pending(t) => turns[t].typingBubble \in TypingIds(chat)))
    /\ [][\A t \in 1..Len(turns) :
            Completes(t) =>
                TypingIds(chat') = TypingIds(chat) \ {turns[t].typingBubble}]_vars

C7_Witness ==
    /\ Len(turns) = 2
    /\ Pending(1) /\ ~Pending(2)
    /\ TypingIds(chat) = {turns[1].typingBubble}

\* C8: an accepted send issues exactly one call, no other step issues one (no
\* retry), and its payload holds the trimmed text, the selector's value and
\* lastModelUsed, all as they are at the send.
C8_OneCallPerSend ==
    [][IF Sends
       THEN fetchLog' = Append(fetchLog,
                [turn |-> Len(turns'),
                 body |-> [message |-> TrimmedOf(inputBox),
                           model |-> modelSelect,
                           prev_model |-> lastModelUsed]])
       ELSE fetchLog' = fetchLog]_vars

C8_Witness ==
    /\ Len(fetchLog) = 2
    /\ fetchLog[2].body.model # fetchLog[2].body.prev_model
    /\ fetchLog[1].body.prev_model # lastModelUsed
    /\ turns[1].path = "catch"

Returned == { t \in 1..Len(turns) : turns[t].pc = "returned" }
Failed == { t \in 1..Len(turns) : turns[t].path = "catch" }

\* C9: with every issued call eventually resolving or rejecting, every pending
\* turn returns with its placeholder removed; a returned turn left a reply or
\* the error entry and no placeholder; and after a failure the send and the
\* selector change are still enabled.
C9_EveryTurnCompletes ==
    /\ \A t \in 1..MaxTurns :
          Pending(t) ~> (t \in Returned /\ turns[t].typingBubble \notin TypingIds(chat))
    /\ [](/\ \A t \in Returned : turns[t].typingBubble \notin TypingIds(chat)
          /\ Len(AIEntries(chat)) = 1 + Cardinality(Returned)
          /\ Len(SelectSeq(chat, IsErrorEntry)) = Cardinality(Failed))
    /\ [](Failed # {} =>
             /\ (~IsBlank(inputBox) /\ Len(turns) < MaxTurns /\ UserActs < MaxActs
                    => ENABLED <<SendClick>>_vars)
             /\ (changes < MaxChanges /\ UserActs < MaxActs
                    => ENABLED <<\E m \in Models, audio \in AudioOutcomes :
                                    ModelChange(m, audio)>>_vars))

C9_Witness ==
    /\ Len(turns) = 2
    /\ turns[1].pc = "returned" /\ turns[1].path = "catch"
    /\ turns[2].pc = "returned" /\ turns[2].path = "try"
    /\ fetchLog[2].body.prev_model = lastModelUsed
    /\ TypingIds(chat) = {}
    /\ IsErrorEntry(chat[Len(chat) - 3])

\* the label a click shows while its timer of `ms` milliseconds is pending
LabelFor(ms) == IF ms = CopiedMs THEN "copied!" ELSE "failed"

\* C10: a click on a copy button asks for one clipboard write of the code
\* element's text; from the write's success the label is "copied!", from its
\* failure "failed", until that click's own timer fires and makes it "copy",
\* for any sequence of clicks on the button.
C10_LabelHeldUntilOwnTimer ==
    /\ \A w \in 1..Len(clipLog) : clipLog[w].text = CodeText(clipLog[w].button)
    /\ \A k \in 1..Len(timers) :
          buttons[timers[k].button].label = LabelFor(timers[k].ms)

\* the copy buttons of the transcript, in document order
CopyButtonsOf(c) ==
    UNION { { c[e].inner.els[k].button :
                k \in { j \in 1..Len(c[e].inner.els) :
                           c[e].inner.els[j].tag = "div.code-wrapper" } } :
            e \in { i \in 1..Len(c) : c[i].inner.t = "html" } }

\* C11: after any sequence of assistant-message insertions every copy button
\* of the transcript carries the bound marker and a click handler that was
\* assigned exactly once, and another run of activateCopyButtons without new
\* buttons changes nothing.
C11_ButtonsBoundOnce ==
    /\ CopyButtonsOf(chat) = 1..Len(buttons)
    /\ \A b \in 1..Len(buttons) : buttons[b].bound /\ buttons[b].handlers = 1
    /\ activateCopyButtons(Dom) = Dom

C11_Witness ==
    /\ Len(buttons) = 2
    /\ Len(AIEntries(chat)) = 3
    /\ 1 \in CopyButtonsOf(SubSeq(chat, 1, Len(chat) - 1))
    /\ 2 \in CopyButtonsOf(<<Last(chat)>>)

IdsOf(c) == { c[i].id : i \in 1..Len(c) }

\* C12: the transcript is append-only apart from typing placeholders: a step
\* removes nothing but placeholders, keeps the entries that stay in their
\* order, and puts every new entry after all of them.
C12_AppendOnly ==
    [][LET kept == SelectSeq(chat, LAMBDA e : e.id \in IdsOf(chat'))
       IN  /\ Settled(kept) = Settled(chat)
           /\ Len(chat') >= Len(kept)
           /\ SubSeq(chat', 1, Len(kept)) = kept
           /\ \A i \in (Len(kept) + 1)..Len(chat') : chat'[i].id \notin IdsOf(chat)]_vars

C12_Witness ==
    /\ Len(turns) = 2
    /\ ~Pending(1) /\ Pending(2)
    /\ changes = 1
    /\ Len(chat) = 6
    /\ IsUser(chat[2]) /\ IsUser(chat[3]) /\ IsTyping(chat[4])
    /\ IsSystem(chat[5]) /\ IsAI(chat[6])

\* C13: for every turn sendMessage performs the removal of the typing
\* placeholder exactly once: not at all while the call is pending, and once,
\* never twice, when the call has completed, whatever the path.
C13_RemovedExactlyOnce ==
    \A t \in 1..Len(turns) :
        turns[t].removes = (IF turns[t].pc = "returned" THEN 1 ELSE 0)

\* C14: a successful turn sets lastModelUsed to the model its request carried,
\* the selector's value at the send, whatever the selector holds when the
\* response is handled; a change of the selector leaves lastModelUsed alone.
C14_LastModelIsSentModel ==
    [][/\ \A t \in 1..Len(turns) :
             Succeeds(t) => lastModelUsed' = fetchLog[t].body.model
       /\ (modelSelect' # modelSelect => lastModelUsed' = lastModelUsed)]_vars

C14_Witness ==
    /\ Len(turns) = 1
    /\ turns[1].pc = "returned" /\ turns[1].path = "try"
    /\ Len(chat) = 4
    /\ IsNoteOf(chat[3], SwitchNote(modelSelect))
    /\ IsAI(chat[4])
    /\ lastModelUsed = fetchLog[1].body.model
    /\ lastModelUsed # modelSelect

\* the body has a string reply and a non-empty string system_note
HasReplyAndNote(data) ==
    /\ data.ty = "object"
    /\ data.reply.ty = "string"
    /\ data.system_note.ty = "string"
    /\ data.system_note.s # <<>>

\* C15: whatever happens to the sound, playClick returns normally: a model
\* change appends its note, and a response with a reply and a system_note
\* appends the note and the reply, sets lastModelUsed and ends in the try
\* block, not in the catch block.
C15_SoundFailuresSwallowed ==
    [][/\ \A m \in Models, audio \in AudioOutcomes :
             ModelChange(m, audio) =>
                 /\ chat' = Append(chat, Last(chat'))
                 /\ IsNoteOf(Last(chat'), SwitchNote(m))
       /\ \A t \in 1..Len(turns), data \in Bodies :
             HasReplyAndNote(data) /\ JsonResolve(t, data) =>
                 /\ turns'[t].pc = "returned"
                 /\ turns'[t].path = "try"
                 /\ IsNoteOf(chat'[Len(chat') - 1], data.system_note.s)
                 /\ IsAI(Last(chat')) /\ ~IsErrorEntry(Last(chat'))
                 /\ lastModelUsed' = fetchLog[t].body.model]_vars

C15_Witness ==
    /\ sound = 2
    /\ changes = 1
    /\ Len(turns) = 1
    /\ turns[1].pc = "returned" /\ turns[1].path = "try"
    /\ lastModelUsed = modelSelect
    /\ lastModelUsed # InitialModel
    /\ Len(chat) = 5
    /\ IsNoteOf(chat[2], SwitchNote(modelSelect))
    /\ IsNoteOf(chat[4], NoteX)
    /\ IsAI(chat[5])

\* turns whose request was sent and whose response is not handled yet
Unhandled == { t \in 1..Len(fetchLog) : turns[t].pc \in {"await fetch", "await json"} }

\* C16: the typing placeholders of the transcript are as many as the requests
\* sent and not yet handled; each such request has its own placeholder in the
\* transcript, and there is none when no request is pending.
C16_PlaceholdersMatchPending ==
    /\ Len(SelectSeq(chat, IsTyping)) = Cardinality(Unhandled)
    /\ TypingIds(chat) = { turns[t].typingBubble : t \in Unhandled }
    /\ (Unhandled = {} => \A i \in 1..Len(chat) : ~IsTyping(chat[i]))

C16_Witness ==
    /\ Len(turns) = 2
    /\ turns[1].pc = "returned" /\ turns[1].path = "catch"
    /\ turns[2].pc = "await json"
    /\ Len(SelectSeq(chat, IsTyping)) = 1
    /\ IsTyping(chat[Len(chat) - 1])
    /\ IsErrorEntry(Last(chat))

\* C17: the step that handles a turn's completed call appends exactly one
\* assistant entry, the reply when it ends in the try block and the fixed
\* error text when it ends in the catch block (also when the body was parsed
\* and rendering it raised); no other step appends an assistant entry.
C17_OneTerminalEntry ==
    [][IF \E t \in 1..Len(turns) : Completes(t)
       THEN /\ Cardinality({ t \in 1..Len(turns) : Completes(t) }) = 1
            /\ AIEntries(chat') = Append(AIEntries(chat), Last(chat'))
            /\ \A t \in 1..Len(turns) :
                  Completes(t) =>
                      (IsErrorEntry(Last(chat')) <=> turns'[t].path = "catch")
       ELSE AIEntries(chat') = AIEntries(chat)]_vars

C17_Witness ==
    /\ Len(turns) = 1
    /\ turns[1].pc = "returned" /\ turns[1].path = "catch"
    /\ turns[1].removes = 2
    /\ Len(chat) = 3
    /\ IsUser(chat[2])
    /\ IsErrorEntry(chat[3])

\* the step detaches the placeholder of turn t
Detaches(t) ==
    /\ turns[t].typingBubble \in IdsOf(chat)
    /\ turns[t].typingBubble \notin IdsOf(chat')

\* the step appends a new assistant entry at the end of the transcript
AppendsAssistantEntry ==
    /\ IsAI(Last(chat'))
    /\ Last(chat').id \notin IdsOf(chat)

\* C18: the handling of a completed call is one step: the step that detaches
\* a turn's placeholder is the step that appends its reply or error entry
\* and returns, lastModelUsed changes in such a step only, and no state
\* between steps shows a placeholder gone without its entry, or a note of
\* the backend without the reply after it.
C18_HandlingIsOneStep ==
    /\ [][\A t \in 1..Len(turns) :
             Detaches(t) => Completes(t) /\ AppendsAssistantEntry]_vars
    /\ [][lastModelUsed' # lastModelUsed =>
             \E t \in 1..Len(turns) : Detaches(t) /\ AppendsAssistantEntry]_vars
    /\ [](/\ Cardinality({ t \in 1..Len(turns) :
                              turns[t].typingBubble \notin IdsOf(chat) })
              = Len(AIEntries(chat)) - 1
          /\ \A i \in 1..Len(chat) :
                IsNoteOf(chat[i], NoteX) => i < Len(chat) /\ IsAI(chat[i + 1]))

C18_Witness ==
    /\ Len(turns) = 2
    /\ turns[1].pc = "await json"
    /\ turns[2].pc = "returned" /\ turns[2].path = "try"
    /\ lastModelUsed # InitialModel
    /\ IsTyping(chat[3])
    /\ IsNoteOf(chat[Len(chat) - 1], NoteX)
    /\ IsAI(Last(chat))

\* the position in the transcript of the user entry of turn t
UserEntryAt(t) ==
    CHOOSE i \in 1..Len(chat) : chat[i].id = turns[t].typingBubble - 1

\* user entries are in send order, and the step that handles a turn's response
\* puts the reply or error entry at the end, after all earlier such entries
\* and after the turn's user entry
EntriesInOrder ==
    /\ [](/\ Len(UserEntries(chat)) = Len(turns)
          /\ \A t \in 1..Len(turns) :
                UserEntries(chat)[t].id = turns[t].typingBubble - 1)
    /\ [][\A t \in 1..Len(turns) :
             Completes(t) =>
                 /\ AIEntries(chat') = Append(AIEntries(chat), Last(chat'))
                 /\ Last(chat').id \notin IdsOf(chat)
                 /\ UserEntryAt(t) < Len(chat')
                 /\ chat'[UserEntryAt(t)] = chat[UserEntryAt(t)]]_vars

\* C19: with several requests pending and the responses handled in any order,
\* user entries are in send order, each reply or error entry comes after its
\* turn's user entry and after the entries of the responses handled before,
\* and lastModelUsed is the model of the successful response handled last,
\* or the selector's initial value when none has succeeded.
C19_OrderAndLastSuccess ==
    /\ EntriesInOrder
    /\ lastModelUsed = InitialModel
    /\ [][IF \E t \in 1..Len(turns) : Succeeds(t)
          THEN \A t \in 1..Len(turns) :
                  Succeeds(t) => lastModelUsed' = fetchLog[t].body.model
          ELSE lastModelUsed' = lastModelUsed]_vars

====
